---------------------------- MODULE Spec2Model ----------------------------
(***************************************************************************)
(* A model of scripts/video/faststart_mp4.py and                           *)
(* scripts/video/audit_mp4_keyframes.py: the ISO-BMFF box walker, the      *)
(* chunk-offset rewriter, the fast-start relocator and the keyframe audit. *)
(*                                                                         *)
(* Buffers are sequences of bytes (0..255).  Python offsets are 0-based    *)
(* and are kept 0-based here; only PySlice turns them into 1-based TLA+    *)
(* indices.                                                                *)
(***************************************************************************)
EXTENDS Integers, Sequences, FiniteSets, TLC

VARIABLES
    \* iter_boxes, run as a generator: buffer, region, cursor, boxes yielded
    wbuf, wstart, wend, wi, wyield, wpc,
    \* adjust_chunk_offsets: the bytearray before and after, delta, how it ended
    moov0, moov, adelta, apc,
    \* faststart main: the file system, argv, the loop position, how main
    \* ended, what each process_file call did, the file operations so far
    fs, files, idx, mpc, log, io,
    \* audit_file: the bytes read, the traks they were built from, the
    \* position in audit_file, the boxes found, the lines printed, the
    \* result of parse_mdhd
    ubuf, utraks, upc, utrak, ufound, uout, umdhd

walkVars == <<wbuf, wstart, wend, wi, wyield, wpc>>
adjustVars == <<moov0, moov, adelta, apc>>
mainVars == <<fs, files, idx, mpc, log, io>>
auditVars == <<ubuf, utraks, upc, utrak, ufound, uout, umdhd>>
vars == <<walkVars, adjustVars, mainVars, auditVars>>

(***************************************************************************)
(* Bounds of the model.                                                    *)
(***************************************************************************)
\* Unsigned fields are read exactly below ValueCap and as ValueCap from
\* there on; every offset and length of the model is far below it.
ValueCap == 16777216
\* Number of chunks concatenated into a buffer handed to the box walker.
MaxWalkChunks == 2
\* How far past the end of the buffer a walked region may reach.
MaxOverrun == 1
\* How far before the end of the buffer a walked region may stop.
MaxTruncate == 8
\* Number of child boxes under the moov handed to the offset rewriter.
MaxAdjustItems == 2
\* Number of entries of a generated chunk-offset table.
MaxEntries == 2
\* Number of top-level boxes of a generated file.
MaxTopBoxes == 3
\* Number of paths on the command line.
MaxFiles == 3
\* Number of trak boxes in the moov of an audited file.
MaxTraks == 2

Min(a, b) == IF a < b THEN a ELSE b
Max(a, b) == IF a > b THEN a ELSE b

(***************************************************************************)
(* Python byte-string primitives.                                          *)
(***************************************************************************)
\* One bound of a slice, as Python clamps it for a sequence of length n.
SliceBound(a, n) == IF a < 0 THEN Max(n + a, 0) ELSE Min(a, n)

\* buf[a:b]
PySlice(buf, a, b) ==
    LET lo == SliceBound(a, Len(buf))
        hi == SliceBound(b, Len(buf))
    IN  IF lo < hi THEN [k \in 1..(hi - lo) |-> buf[lo + k]] ELSE <<>>

\* int.from_bytes(b, "big", signed=False): exact below ValueCap (the three
\* low digits, when every digit above them is 0), ValueCap otherwise.
Digit(b, k) == IF k >= 1 THEN b[k] ELSE 0

FromBytes(b) ==
    IF \E k \in 1..(Len(b) - 3) : b[k] # 0 THEN ValueCap
    ELSE Digit(b, Len(b) - 2) * 65536 + Digit(b, Len(b) - 1) * 256 + Digit(b, Len(b))

_u32(b) == FromBytes(b)
_u64(b) == FromBytes(b)

\* bytes.decode("ascii", errors="replace"): the code points of the string;
\* every byte that is not ASCII becomes U+FFFD.
DecodeAscii(b) == [k \in 1..Len(b) |-> IF b[k] < 128 THEN b[k] ELSE 65533]

\* str literals of the source, as code points.
Str_moov == <<109, 111, 111, 118>>
Str_trak == <<116, 114, 97, 107>>
Str_mdia == <<109, 100, 105, 97>>
Str_minf == <<109, 105, 110, 102>>
Str_stbl == <<115, 116, 98, 108>>
Str_edts == <<101, 100, 116, 115>>
Str_dinf == <<100, 105, 110, 102>>
Str_udta == <<117, 100, 116, 97>>
Str_meta == <<109, 101, 116, 97>>
Str_ilst == <<105, 108, 115, 116>>
Str_stco == <<115, 116, 99, 111>>
Str_co64 == <<99, 111, 54, 52>>
Str_ftyp == <<102, 116, 121, 112>>
Str_mdat == <<109, 100, 97, 116>>
Str_hdlr == <<104, 100, 108, 114>>
Str_mdhd == <<109, 100, 104, 100>>
Str_stsz == <<115, 116, 115, 122>>
Str_stss == <<115, 116, 115, 115>>
Str_vide == <<118, 105, 100, 101>>
Str_soun == <<115, 111, 117, 110>>
Str_free == <<102, 114, 101, 101>>

(***************************************************************************)
(* iter_boxes: one turn of the while loop at cursor i.  ok is FALSE when   *)
(* the loop ends there (the loop condition fails, or one of the breaks).   *)
(***************************************************************************)
NoBox == [ok |-> FALSE]

\* BoxAt without the break on size < header.
BoxAtNoHeaderCheck(buf, i, end) ==
    IF ~(i + 8 <= end) THEN NoBox
    ELSE
    LET size32 == _u32(PySlice(buf, i, i + 4))
        typ == DecodeAscii(PySlice(buf, i + 4, i + 8))
        ext == size32 = 1
        header == IF ext THEN 16 ELSE 8
        size == IF ext THEN _u64(PySlice(buf, i + 8, i + 16))
                ELSE IF size32 = 0 THEN end - i
                ELSE size32
    IN  IF ext /\ i + 16 > end THEN NoBox
        ELSE IF i + size > end THEN NoBox
        ELSE [ok |-> TRUE, typ |-> typ, start |-> i, size |-> size, header |-> header]

BoxAt(buf, i, end) ==
    IF ~(i + 8 <= end) THEN NoBox
    ELSE
    LET size32 == _u32(PySlice(buf, i, i + 4))
        typ == DecodeAscii(PySlice(buf, i + 4, i + 8))
        ext == size32 = 1
        header == IF ext THEN 16 ELSE 8
        size == IF ext THEN _u64(PySlice(buf, i + 8, i + 16))
                ELSE IF size32 = 0 THEN end - i
                ELSE size32
    IN  IF ext /\ i + 16 > end THEN NoBox
        ELSE IF size < header THEN NoBox
        ELSE IF i + size > end THEN NoBox
        ELSE [ok |-> TRUE, typ |-> typ, start |-> i, size |-> size, header |-> header]

\* list(iter_boxes(buf, start, end))
RECURSIVE IterBoxes(_, _, _)
IterBoxes(buf, start, end) ==
    LET b == BoxAt(buf, start, end)
    IN  IF b.ok THEN <<b>> \o IterBoxes(buf, start + b.size, end) ELSE <<>>

(***************************************************************************)
(* Byte strings used to build inputs.                                      *)
(***************************************************************************)
\* int(v).to_bytes(n, "big") for 0 <= v < 256^n.
RECURSIVE BE(_, _)
BE(v, n) == IF n = 0 THEN <<>> ELSE BE(v \div 256, n - 1) \o <<v % 256>>

Zeros(n) == [k \in 1..n |-> 0]

\* A box with a standard 8-byte header around payload.
Box(tag, payload) == BE(8 + Len(payload), 4) \o tag \o payload

\* A box with the extended 16-byte header (size32 = 1).
BoxExt(tag, payload) == BE(1, 4) \o tag \o BE(16 + Len(payload), 8) \o payload

\* A header whose size32 is 0 ("to the end of the region").
BoxToEnd(tag, payload) == BE(0, 4) \o tag \o payload

RECURSIVE Concat(_)
Concat(ss) == IF ss = <<>> THEN <<>> ELSE Head(ss) \o Concat(Tail(ss))

RECURSIVE SeqsUpTo(_, _)
SeqsUpTo(S, n) ==
    IF n = 0 THEN {<<>>}
    ELSE LET shorter == SeqsUpTo(S, n - 1)
         IN  shorter \cup {Append(s, x) : s \in shorter, x \in S}

(***************************************************************************)
(* The box walker as a generator: each WalkStep is one resumption.         *)
(***************************************************************************)
WalkChunks ==
    { Box(Str_free, <<>>),
      Box(Str_free, Zeros(4)),
      BoxToEnd(Str_free, Zeros(4)),
      BoxExt(Str_free, <<>>),
      BE(1, 4) \o Str_free \o BE(0, 8),                     \* extended size < header
      BE(1, 4) \o Str_free \o <<1, 0, 0, 0, 0, 0, 0, 16>>,  \* extended size > 2^32
      BE(4, 4) \o Str_free }                                \* size32 < header

WalkBuffers == { Concat(cs) : cs \in SeqsUpTo(WalkChunks, MaxWalkChunks) }

WalkStarts == {0, 1, 8}

\* The ends of the regions walked over buf: the end of the buffer, up to
\* MaxTruncate bytes before it and up to MaxOverrun bytes past it.
WalkEnds(buf) ==
    { e \in (Len(buf) - MaxTruncate)..(Len(buf) + MaxOverrun) : e >= 0 }

NoBuf == <<>>

WalkIdle ==
    /\ wbuf = NoBuf /\ wstart = 0 /\ wend = 0 /\ wi = 0
    /\ wyield = <<>> /\ wpc = "idle"

\* iter_boxes(buf, start, end) is called: the generator is created.
WalkCall ==
    /\ wpc = "idle"
    /\ \E buf \in WalkBuffers, start \in WalkStarts :
         \E end \in WalkEnds(buf) :
            /\ wbuf' = buf
            /\ wstart' = start
            /\ wend' = end
            /\ wi' = start
    /\ wyield' = <<>>
    /\ wpc' = "walk"

\* The consumer asks for the next box: the loop runs to its next yield, or ends.
WalkStep ==
    /\ wpc = "walk"
    /\ LET b == BoxAt(wbuf, wi, wend)
       IN  IF b.ok
           THEN /\ wyield' = Append(wyield, b)
                /\ wi' = wi + b.size
                /\ wpc' = "walk"
           ELSE /\ wpc' = "done"
                /\ UNCHANGED <<wi, wyield>>
    /\ UNCHANGED <<wbuf, wstart, wend>>

WalkNext == (WalkCall \/ WalkStep) /\ UNCHANGED <<adjustVars, mainVars, auditVars>>

(***************************************************************************)
(* adjust_chunk_offsets.                                                   *)
(***************************************************************************)
ContainerBoxes ==
    { Str_moov, Str_trak, Str_mdia, Str_minf, Str_stbl,
      Str_edts, Str_dinf, Str_udta, Str_meta, Str_ilst }

\* b as an unsigned big-endian number plus d, digit by digit:
\* <<the digits of the sum, the carry out of the top digit>>.
RECURSIVE AddCarry(_, _)
AddCarry(b, d) ==
    IF b = <<>> THEN <<<<>>, d>>
    ELSE LET s == b[Len(b)] + d
             rest == AddCarry(SubSeq(b, 1, Len(b) - 1), s \div 256)
         IN  <<Append(rest[1], s % 256), rest[2]>>

\* _p32(_u32(b) + delta) and _p64(_u64(b) + delta): int.to_bytes raises
\* OverflowError when the sum is negative or does not fit the field.
PackSum(b, delta) ==
    LET r == AddCarry(b, delta)
    IN  IF r[2] = 0 THEN [raised |-> FALSE, bytes |-> r[1]]
        ELSE [raised |-> TRUE, bytes |-> <<>>]

\* buf[a:b] = bytes
SetSlice(buf, a, b, bytes) ==
    PySlice(buf, 0, SliceBound(a, Len(buf))) \o bytes
        \o PySlice(buf, Max(SliceBound(a, Len(buf)), SliceBound(b, Len(buf))), Len(buf))

\* for i in range(entry_count): ..., from entry i on; an exception ends it.
RECURSIVE PatchEntries(_, _, _, _, _, _)
PatchEntries(st, table_start, width, entry_count, delta, i) ==
    IF st.raised \/ i >= entry_count THEN st
    ELSE LET off == table_start + i * width
             new == PackSum(PySlice(st.buf, off, off + width), delta)
         IN  IF new.raised THEN [st EXCEPT !.raised = TRUE]
             ELSE PatchEntries([st EXCEPT !.buf = SetSlice(st.buf, off, off + width, new.bytes)],
                               table_start, width, entry_count, delta, i + 1)

\* The stco (width 4) and co64 (width 8) branches for box b.
PatchTable(st, b, width, delta) ==
    LET data_start == b.start + b.header
        data_end == b.start + b.size
        entry_count == _u32(PySlice(st.buf, data_start + 4, data_start + 8))
        table_start == data_start + 8
        table_bytes == entry_count * width
    IN  IF data_start + 8 > data_end THEN st
        ELSE IF table_start + table_bytes > data_end THEN st
        ELSE PatchEntries(st, table_start, width, entry_count, delta, 0)

\* recurse(region_start, region_end, parent_type), with its for loop resumed
\* at cursor i: the generator reads the header at i from the bytearray as it
\* is then.  st is [buf, raised].
RECURSIVE Recurse(_, _, _, _)
Recurse(st, i, region_end, delta) ==
    IF st.raised THEN st
    ELSE
    LET b == BoxAt(st.buf, i, region_end)
    IN  IF ~b.ok THEN st
        ELSE
        LET data_start == b.start + b.header
            data_end == b.start + b.size
            after ==
                IF b.typ \in ContainerBoxes
                THEN IF b.typ = Str_meta
                     THEN IF data_start + 4 <= data_end
                          THEN Recurse(st, data_start + 4, data_end, delta)
                          ELSE st
                     ELSE Recurse(st, data_start, data_end, delta)
                ELSE IF b.typ = Str_stco THEN PatchTable(st, b, 4, delta)
                ELSE IF b.typ = Str_co64 THEN PatchTable(st, b, 8, delta)
                ELSE st
        IN  Recurse(after, i + b.size, region_end, delta)

adjust_chunk_offsets(buf, delta) ==
    Recurse([buf |-> buf, raised |-> FALSE], 0, Len(buf), delta)

(***************************************************************************)
(* Inputs of the offset rewriter.                                          *)
(***************************************************************************)
Entries32 == { BE(40, 4), <<0, 0, 255, 250>>, <<255, 255, 255, 250>> }
Entries64 == { BE(40, 8), <<255, 255, 255, 255, 255, 255, 255, 250>> }

Table(tag, entries) ==
    Box(tag, Zeros(4) \o BE(Len(entries), 4) \o Concat(entries))

Tables ==
    { Table(Str_stco, es) : es \in SeqsUpTo(Entries32, MaxEntries) }
      \cup { Table(Str_co64, es) : es \in SeqsUpTo(Entries64, MaxEntries) }

\* payload inside trak -> mdia -> minf -> stbl
InStbl(payload) ==
    Box(Str_trak, Box(Str_mdia, Box(Str_minf, Box(Str_stbl, payload))))

AdjustItems ==
    Tables
      \cup { InStbl(t) : t \in Tables }
      \cup { Box(Str_meta, Zeros(4) \o Table(Str_stco, <<BE(40, 4)>>)),
             Box(Str_udta, Box(Str_meta, Zeros(2))),
             \* a table inside a box that is no container
             Box(Str_free, Table(Str_stco, <<BE(40, 4)>>)),
             \* entry_count larger than the box holds
             Box(Str_stco, Zeros(4) \o BE(3, 4) \o BE(40, 4) \o BE(44, 4)),
             Box(Str_co64, Zeros(4) \o BE(2, 4) \o BE(40, 8)),
             \* no room for entry_count
             Box(Str_stco, Zeros(4)),
             \* a header that claims more than the region holds
             BE(100, 4) \o Str_stco \o Zeros(4) \o BE(1, 4) \o BE(40, 4) }

AdjustBuffers ==
    { Box(Str_moov, Concat(items)) : items \in SeqsUpTo(AdjustItems, MaxAdjustItems) }

AdjustDeltas == {-41, 0, 8, 300}

AdjustIdle == moov0 = NoBuf /\ moov = NoBuf /\ adelta = 0 /\ apc = "idle"

AdjustInit ==
    /\ moov0 \in AdjustBuffers
    /\ moov = moov0
    /\ adelta \in AdjustDeltas
    /\ apc = "call"

AdjustChunkOffsets ==
    /\ apc = "call"
    /\ LET st == adjust_chunk_offsets(moov, adelta)
       IN  /\ moov' = st.buf
           /\ apc' = IF st.raised THEN "OverflowError" ELSE "returned"
    /\ UNCHANGED <<moov0, adelta>>

AdjustNext == AdjustChunkOffsets /\ UNCHANGED <<walkVars, mainVars, auditVars>>

(***************************************************************************)
(* faststart_mp4.py: find_top_level_atoms, moov_is_faststart, process_file *)
(***************************************************************************)
\* The dict of find_top_level_atoms, as a function on its keys: for each
\* type the last top-level box of that type.
find_top_level_atoms(buf) ==
    LET bs == IterBoxes(buf, 0, Len(buf))
        last(t) == CHOOSE k \in 1..Len(bs) :
                      /\ bs[k].typ = t
                      /\ \A j \in (k + 1)..Len(bs) : bs[j].typ # t
    IN  [t \in {bs[k].typ : k \in 1..Len(bs)} |-> bs[last(t)]]

\* atoms.get("mdat", (-1, -1, -1))[0]
StartOrMinus1(atoms, t) == IF t \in DOMAIN atoms THEN atoms[t].start ELSE -1

\* moov_is_faststart without the case of a file that has no mdat.
moov_is_faststart_mdat_required(moov_start, mdat_start) ==
    moov_start >= 0 /\ mdat_start >= 0 /\ moov_start < mdat_start

moov_is_faststart(moov_start, mdat_start) ==
    moov_start >= 0 /\ (mdat_start < 0 \/ moov_start < mdat_start)

\* The new layout with the old moov left where it was.
RebuiltKeepingOldMoov(data, insert_at, moov_bytes, moov_start, moov_size) ==
    PySlice(data, 0, insert_at) \o moov_bytes \o PySlice(data, insert_at, Len(data))

\* rebuilt = data[:insert_at] + bytes(moov_bytes) + data[insert_at:moov_start]
\*           + data[moov_start + moov_size:]
Rebuilt(data, insert_at, moov_bytes, moov_start, moov_size) ==
    PySlice(data, 0, insert_at) \o moov_bytes
        \o PySlice(data, insert_at, moov_start)
        \o PySlice(data, moov_start + moov_size, Len(data))

\* What a call of process_file leaves behind when nothing was computed.
NoResult ==
    [ outcome |-> "none", insert_at |-> -1, moov_start |-> -1, moov_size |-> -1,
      mdat_start |-> -1, delta |-> 0, moov_bytes |-> <<>>, rebuilt |-> <<>>,
      new_moov_start |-> -1, new_mdat_start |-> -1 ]

\* process_file from the write on: the adjusted moov st is put in place,
\* the output written and read back.
WriteOut(found, st, rebuilt, check_atoms) ==
    IF st.raised
    THEN [found EXCEPT !.outcome = "OverflowError", !.moov_bytes = st.buf]
    ELSE IF Str_moov \notin DOMAIN check_atoms
    THEN [found EXCEPT !.outcome = "KeyError_after_write",
                       !.moov_bytes = st.buf, !.rebuilt = rebuilt]
    ELSE [found EXCEPT !.outcome = "wrote",
                       !.moov_bytes = st.buf, !.rebuilt = rebuilt,
                       !.new_moov_start = check_atoms[Str_moov].start,
                       !.new_mdat_start = StartOrMinus1(check_atoms, Str_mdat)]

\* process_file once moov and the insertion point are known and the file
\* is not fast-start: the layout checks, then the relocation.
Relocate(data, found, st) ==
    IF found.insert_at <= 0 \/ found.insert_at > Len(data)
    THEN [found EXCEPT !.outcome = "RuntimeError_invalid_ftyp_size"]
    ELSE IF found.moov_start < found.insert_at
    THEN [found EXCEPT !.outcome = "RuntimeError_unexpected_layout"]
    ELSE WriteOut([found EXCEPT !.delta = found.moov_size], st,
                  Rebuilt(data, found.insert_at, st.buf,
                          found.moov_start, found.moov_size),
                  find_top_level_atoms(
                      Rebuilt(data, found.insert_at, st.buf,
                              found.moov_start, found.moov_size)))

\* process_file once the top-level atoms are known.
ProcessAtoms(data, atoms) ==
    IF Str_moov \notin DOMAIN atoms \/ Str_ftyp \notin DOMAIN atoms
    THEN [NoResult EXCEPT !.outcome = "RuntimeError_missing_atoms"]
    ELSE IF moov_is_faststart(atoms[Str_moov].start, StartOrMinus1(atoms, Str_mdat))
    THEN [NoResult EXCEPT !.outcome = "already_faststart",
                          !.moov_start = atoms[Str_moov].start,
                          !.moov_size = atoms[Str_moov].size,
                          !.mdat_start = StartOrMinus1(atoms, Str_mdat),
                          !.insert_at = atoms[Str_ftyp].start + atoms[Str_ftyp].size]
    ELSE Relocate(data,
                  [NoResult EXCEPT !.moov_start = atoms[Str_moov].start,
                                   !.moov_size = atoms[Str_moov].size,
                                   !.mdat_start = StartOrMinus1(atoms, Str_mdat),
                                   !.insert_at = atoms[Str_ftyp].start
                                                    + atoms[Str_ftyp].size],
                  \* delta = moov_size
                  adjust_chunk_offsets(
                      PySlice(data, atoms[Str_moov].start,
                              atoms[Str_moov].start + atoms[Str_moov].size),
                      atoms[Str_moov].size))

\* process_file on a file whose bytes are data.  outcome is the exception
\* raised, "already_faststart" (printed, nothing written) or "wrote".
process_file(data) == ProcessAtoms(data, find_top_level_atoms(data))

Written(r) == r.outcome \in {"wrote", "KeyError_after_write"}
Raised(r) == r.outcome \notin {"wrote", "already_faststart"}

(***************************************************************************)
(* faststart main over a file system.  A path is <<name, n>>: name with    *)
(* ".faststart" appended n times.                                          *)
(***************************************************************************)
\* path.with_suffix(path.suffix + ".faststart")
OutPath(p) == <<p[1], p[2] + 1>>

ArgPaths == {<<"a", 0>>, <<"a", 1>>, <<"b", 0>>}
Paths == ArgPaths \cup {OutPath(p) : p \in ArgPaths}

NoFile == [exists |-> FALSE, data |-> <<>>]
File(data) == [exists |-> TRUE, data |-> data]

Ftyp == Box(Str_ftyp, <<105, 115, 111, 109>>)
Mdat == Box(Str_mdat, <<1, 2, 3, 4>>)
Free == Box(Str_free, <<>>)
\* chunk offsets 20 and 22, in trak -> mdia -> minf -> stbl -> stco
MoovStco == Box(Str_moov, InStbl(Table(Str_stco, <<BE(20, 4), BE(22, 4)>>)))
\* a chunk offset that the relocation pushes past 2^32
MoovStcoHigh == Box(Str_moov, Table(Str_stco, <<BE(20, 4), <<255, 255, 255, 250>>>>))
\* a moov that runs to the end of the file (size32 = 0)
MoovToEnd == BoxToEnd(Str_moov, Table(Str_co64, <<BE(20, 8)>>))

TopBoxes == {Ftyp, Mdat, Free, MoovStco, MoovStcoHigh, MoovToEnd}

Layouts == { Concat(bs) : bs \in SeqsUpTo(TopBoxes, MaxTopBoxes) }

FileLists ==
    { fl \in SeqsUpTo(ArgPaths, MaxFiles) :
        \A j, k \in 1..Len(fl) : j # k => fl[j] # fl[k] }

MainIdle ==
    /\ fs = [p \in Paths |-> NoFile] /\ files = <<>> /\ idx = 0
    /\ mpc = "idle" /\ log = <<>> /\ io = <<>>

\* The shell starts main(argv) over some file system.
MainCall ==
    /\ mpc = "idle"
    /\ \E a \in Layouts, b \in {NoFile, File(Ftyp \o Mdat \o MoovStco)} :
          fs' = [p \in Paths |-> IF p = <<"a", 0>> THEN File(a)
                                 ELSE IF p = <<"b", 0>> THEN b
                                 ELSE NoFile]
    /\ files' \in FileLists \ {<<>>}
    /\ idx' = 1
    /\ mpc' = "running"
    /\ log' = <<>>
    /\ io' = <<>>
    /\ UNCHANGED <<walkVars, adjustVars, auditVars>>

\* for f in args.files: p does not exist, FileNotFoundError leaves main.
MainNotFound ==
    /\ mpc = "running" /\ idx <= Len(files)
    /\ LET p == files[idx]
       IN  /\ ~fs[p].exists
           /\ log' = Append(log, [path |-> p, data |-> <<>>,
                                  res |-> [NoResult EXCEPT !.outcome = "FileNotFoundError"],
                                  src_after |-> NoFile,
                                  out_before |-> fs[OutPath(p)],
                                  out_after |-> fs[OutPath(p)]])
           /\ io' = Append(io, <<"exists", p>>)
    /\ mpc' = "raised"
    /\ UNCHANGED <<fs, files, idx>>
    /\ UNCHANGED <<walkVars, adjustVars, auditVars>>

\* The effect of process_file(p) with result r on the file system and on
\* the records kept of it.
Processed(p, r, fs2) ==
    /\ fs' = fs2
    /\ log' = Append(log, [path |-> p, data |-> fs[p].data, res |-> r,
                           src_after |-> fs2[p],
                           out_before |-> fs[OutPath(p)],
                           out_after |-> fs2[OutPath(p)]])
    /\ io' = io \o <<<<"exists", p>>, <<"read", p>>>>
                \o (IF Written(r)
                    THEN <<<<"write", OutPath(p)>>, <<"read", OutPath(p)>>>>
                    ELSE <<>>)

\* out_path.write_bytes(rebuilt), when process_file gets that far.
AfterWrite(p, r) ==
    IF Written(r) THEN [fs EXCEPT ![OutPath(p)] = File(r.rebuilt)] ELSE fs

\* A loop that goes on to the next file after a failure.
ContinueOnError(p, r) ==
    /\ Processed(p, r, AfterWrite(p, r))
    /\ mpc' = "running"
    /\ idx' = idx + 1

\* The loop of main after process_file(p) ended with result r.
Continue(p, r) ==
    /\ Processed(p, r, AfterWrite(p, r))
    /\ mpc' = IF Raised(r) THEN "raised" ELSE "running"
    /\ idx' = IF Raised(r) THEN idx ELSE idx + 1

\* for f in args.files: process_file(p); an exception leaves main.
MainProcessFile ==
    /\ mpc = "running" /\ idx <= Len(files)
    /\ fs[files[idx]].exists
    /\ Continue(files[idx], process_file(fs[files[idx]].data))
    /\ UNCHANGED files
    /\ UNCHANGED <<walkVars, adjustVars, auditVars>>

\* return 0
MainReturn ==
    /\ mpc = "running" /\ idx > Len(files)
    /\ mpc' = "returned"
    /\ UNCHANGED <<fs, files, idx, log, io>>
    /\ UNCHANGED <<walkVars, adjustVars, auditVars>>

MainNext == MainCall \/ MainNotFound \/ MainProcessFile \/ MainReturn

(***************************************************************************)
(* audit_mp4_keyframes.py: box lookup and the field parsers.               *)
(***************************************************************************)
\* The first box of type t that iter_boxes(buf, start, end) yields.
RECURSIVE FirstOfType(_, _, _, _)
FirstOfType(buf, start, end, t) ==
    IF ~BoxAt(buf, start, end).ok THEN NoBox
    ELSE IF BoxAt(buf, start, end).typ = t THEN BoxAt(buf, start, end)
    ELSE FirstOfType(buf, start + BoxAt(buf, start, end).size, end, t)

DataStart(b) == b.start + b.header
DataEnd(b) == b.start + b.size

\* walk(region_start, region_end, idx) of find_first; depth is idx + 1.
RECURSIVE walk(_, _, _, _, _)
walkInto(buf, path, depth, b) ==
    IF ~b.ok THEN NoBox
    ELSE IF depth = Len(path) THEN b
    ELSE IF b.typ = Str_meta
         THEN IF DataStart(b) + 4 <= DataEnd(b)
              THEN walk(buf, path, DataStart(b) + 4, DataEnd(b), depth + 1)
              ELSE NoBox
    ELSE walk(buf, path, DataStart(b), DataEnd(b), depth + 1)

walk(buf, path, region_start, region_end, depth) ==
    walkInto(buf, path, depth, FirstOfType(buf, region_start, region_end, path[depth]))

find_first(buf, path) == walk(buf, path, 0, Len(buf), 1)

BoxData(buf, b) == PySlice(buf, DataStart(b), DataEnd(b))

ValueError == [ok |-> FALSE, timescale |-> 0, duration |-> 0]

\* parse_mdhd on the data bytes of the box: every version but 1 is read
\* with the version 0 layout.
ParseMdhdData(data) ==
    IF Len(data) < 4 THEN ValueError
    ELSE IF data[1] = 1
         THEN IF Len(data) < 32 THEN ValueError
              ELSE [ok |-> TRUE,
                    timescale |-> _u32(PySlice(data, 20, 24)),
                    duration |-> _u64(PySlice(data, 24, 32))]
    ELSE IF Len(data) < 20 THEN ValueError
    ELSE [ok |-> TRUE,
          timescale |-> _u32(PySlice(data, 12, 16)),
          duration |-> _u32(PySlice(data, 16, 20))]

parse_mdhd(buf, b) == ParseMdhdData(BoxData(buf, b))

parse_hdlr_handler_type(buf, b) ==
    IF Len(BoxData(buf, b)) < 12 THEN <<>>
    ELSE DecodeAscii(PySlice(BoxData(buf, b), 8, 12))

parse_stsz_sample_count(buf, b) ==
    IF Len(BoxData(buf, b)) < 12 THEN 0
    ELSE _u32(PySlice(BoxData(buf, b), 8, 12))

parse_stss_sync_count(buf, b) ==
    IF Len(BoxData(buf, b)) < 8 THEN 0
    ELSE _u32(PySlice(BoxData(buf, b), 4, 8))

\* The first child of type t of box b (NoBox when b is none).
Child(buf, b, t) ==
    IF b.ok THEN FirstOfType(buf, DataStart(b), DataEnd(b), t) ELSE NoBox

\* The body of the trak loop of locate_video_trak: TRUE when it returns
\* this trak, FALSE when it continues.
HandlerIsVide(buf, hdlr) ==
    hdlr.ok /\ parse_hdlr_handler_type(buf, hdlr) = Str_vide

\* A scan that takes any trak that has a handler box.
IsAnyHandlerTrak(buf, trak) ==
    Child(buf, Child(buf, trak, Str_mdia), Str_hdlr).ok

IsVideoTrak(buf, trak) ==
    HandlerIsVide(buf, Child(buf, Child(buf, trak, Str_mdia), Str_hdlr))

\* for typ, start, size, header in iter_boxes(buf, moov_data_start, ...),
\* from cursor i on.
RECURSIVE ScanTraks(_, _, _)
ScanTraks(buf, i, end) ==
    IF ~BoxAt(buf, i, end).ok THEN NoBox
    ELSE IF BoxAt(buf, i, end).typ = Str_trak /\ IsVideoTrak(buf, BoxAt(buf, i, end))
         THEN BoxAt(buf, i, end)
    ELSE ScanTraks(buf, i + BoxAt(buf, i, end).size, end)

ScanMoov(buf, moov_box) ==
    IF ~moov_box.ok THEN NoBox
    ELSE ScanTraks(buf, DataStart(moov_box), DataEnd(moov_box))

locate_video_trak(buf) == ScanMoov(buf, find_first(buf, <<Str_moov>>))

(***************************************************************************)
(* audit_file.                                                             *)
(***************************************************************************)
NoneFound == [mdhd |-> NoBox, stsz |-> NoBox, stss |-> NoBox]

\* The loop over the children of stbl: the last stsz and the last stss win.
NoteStbl(found, b) ==
    IF b.typ = Str_stsz THEN [found EXCEPT !.stsz = b]
    ELSE IF b.typ = Str_stss THEN [found EXCEPT !.stss = b]
    ELSE found

RECURSIVE ScanStbl(_, _, _, _)
ScanStbl(buf, i, end, found) ==
    IF ~BoxAt(buf, i, end).ok THEN found
    ELSE ScanStbl(buf, i + BoxAt(buf, i, end).size, end,
                  NoteStbl(found, BoxAt(buf, i, end)))

\* if typ == "minf": the first stbl of the minf, when there is one.
ScanMinf(buf, stbl, found) ==
    IF stbl.ok THEN ScanStbl(buf, DataStart(stbl), DataEnd(stbl), found)
    ELSE found

\* The loop over the children of mdia: the last mdhd wins.
NoteMdia(buf, found, b) ==
    IF b.typ = Str_mdhd THEN [found EXCEPT !.mdhd = b]
    ELSE IF b.typ = Str_minf THEN ScanMinf(buf, Child(buf, b, Str_stbl), found)
    ELSE found

RECURSIVE ScanMdia(_, _, _, _)
ScanMdia(buf, i, end, found) ==
    IF ~BoxAt(buf, i, end).ok THEN found
    ELSE ScanMdia(buf, i + BoxAt(buf, i, end).size, end,
                  NoteMdia(buf, found, BoxAt(buf, i, end)))

\* a / b, kept as written: the printed line formats these quotients.
Quot(a, b) == [num |-> a, den |-> b]
Zero == 0

DurationS(timescale, duration_units) ==
    IF timescale # 0 THEN Quot(duration_units, timescale) ELSE Zero

\* duration_s > 0
Positive(timescale, duration_units) == timescale # 0 /\ duration_units > 0

\* The line of statistics that audit_file prints.
StatsLine(timescale, duration_units, sample_count, sync_count) ==
    [kind |-> "stats",
     duration |-> DurationS(timescale, duration_units),
     samples |-> sample_count,
     keyframes |-> sync_count,
     fps |-> IF Positive(timescale, duration_units)
             THEN Quot(sample_count, DurationS(timescale, duration_units))
             ELSE Zero,
     avg_keyframe_interval |->
             IF Positive(timescale, duration_units) /\ sync_count > 0
             THEN Quot(DurationS(timescale, duration_units), sync_count)
             ELSE Zero,
     frames |-> IF sync_count > 0 THEN Quot(sample_count, sync_count) ELSE Zero]

Diagnostic(text) == [kind |-> text]

\* Generated inputs: a file is ftyp, a moov holding a free box and the traks,
\* and mdat; or ftyp and mdat alone.
MdhdBytes(m) ==
    <<m.version, 0, 0, 0>>
        \o (IF m.version = 1
            THEN Zeros(16) \o BE(m.timescale, 4) \o BE(m.duration, 8)
            ELSE Zeros(8) \o BE(m.timescale, 4) \o BE(m.duration, 4) \o Zeros(12))

\* An mdhd box with the first m.len data bytes of a whole one; none for -1.
MdhdBox(m) ==
    IF m.len < 0 THEN <<>> ELSE Box(Str_mdhd, PySlice(MdhdBytes(m), 0, m.len))

HdlrBox(kind) ==
    IF kind = "vide" THEN Box(Str_hdlr, Zeros(8) \o Str_vide)
    ELSE IF kind = "soun" THEN Box(Str_hdlr, Zeros(8) \o Str_soun)
    ELSE IF kind = "short" THEN Box(Str_hdlr, Zeros(8))
    ELSE <<>>

StszBox(n) == Box(Str_stsz, Zeros(8) \o BE(n, 4))
StssBox(n) == Box(Str_stss, Zeros(4) \o BE(n, 4))

MinfBox(kind) ==
    IF kind = "full" THEN Box(Str_minf, Box(Str_stbl, StszBox(60) \o StssBox(3)))
    ELSE IF kind = "nostss" THEN Box(Str_minf, Box(Str_stbl, StszBox(60)))
    ELSE IF kind = "nostsz" THEN Box(Str_minf, Box(Str_stbl, StssBox(3)))
    ELSE IF kind = "shortstsz"
         THEN Box(Str_minf, Box(Str_stbl, Box(Str_stsz, Zeros(8)) \o StssBox(3)))
    ELSE IF kind = "sync0" THEN Box(Str_minf, Box(Str_stbl, StszBox(60) \o StssBox(0)))
    ELSE Box(Str_minf, Free)

TrakBox(d) ==
    IF d.hdlr = "nomdia" THEN Box(Str_trak, Free)
    ELSE Box(Str_trak,
             Box(Str_mdia, MdhdBox(d.mdhd) \o HdlrBox(d.hdlr) \o MinfBox(d.stbl)))

RECURSIVE TrakBoxes(_)
TrakBoxes(ds) == IF ds = <<>> THEN <<>> ELSE TrakBox(Head(ds)) \o TrakBoxes(Tail(ds))

AuditBytes(inp) ==
    IF inp.has_moov
    THEN Ftyp \o Box(Str_moov, Free \o TrakBoxes(inp.traks)) \o Mdat
    ELSE Ftyp \o Mdat

Mdhd0 == [version |-> 0, len |-> 20, timescale |-> 1000, duration |-> 2000]

MdhdKinds ==
    [version : {0, 1, 2}, len : {3, 19, 20, 31, 32},
     timescale : {1000}, duration : {2000}]
        \cup { [Mdhd0 EXCEPT !.timescale = 0], [Mdhd0 EXCEPT !.duration = 0],
               [Mdhd0 EXCEPT !.len = -1] }

TrakKinds ==
    [hdlr : {"vide"}, mdhd : MdhdKinds, stbl : {"full"}]
        \cup [hdlr : {"vide"}, mdhd : {Mdhd0},
              stbl : {"nostss", "nostsz", "shortstsz", "sync0", "nostbl"}]
        \cup [hdlr : {"soun", "short", "nohdlr", "nomdia"}, mdhd : {Mdhd0},
              stbl : {"full"}]

AuditInputs ==
    [has_moov : {TRUE}, traks : SeqsUpTo(TrakKinds, MaxTraks)]
        \cup {[has_moov |-> FALSE, traks |-> <<>>]}

NotParsed == [ok |-> FALSE, timescale |-> -1, duration |-> -1]

AuditIdle ==
    /\ ubuf = NoBuf /\ utraks = [has_moov |-> FALSE, traks |-> <<>>]
    /\ upc = "idle" /\ utrak = NoBox /\ ufound = NoneFound
    /\ uout = <<>> /\ umdhd = NotParsed

\* audit_file(path) is called: buf = path.read_bytes()
AuditCall ==
    /\ upc = "idle"
    /\ \E inp \in AuditInputs :
         /\ utraks' = inp
         /\ ubuf' = AuditBytes(inp)
    /\ upc' = "locate"
    /\ UNCHANGED <<utrak, ufound, uout, umdhd>>

\* trak = locate_video_trak(buf); if not trak: print, return
AuditLocate ==
    /\ upc = "locate"
    /\ utrak' = locate_video_trak(ubuf)
    /\ IF utrak'.ok
       THEN upc' = "scan" /\ uout' = uout
       ELSE /\ upc' = "returned"
            /\ uout' = Append(uout, Diagnostic("unable to locate video track"))
    /\ UNCHANGED <<ubuf, utraks, ufound, umdhd>>

\* The walk of trak -> mdia -> minf -> stbl and the two checks after it.
Scanned(mdia) ==
    IF ~mdia.ok
    THEN /\ ufound' = ufound
         /\ upc' = "returned"
         /\ uout' = Append(uout, Diagnostic("missing mdia"))
    ELSE /\ ufound' = ScanMdia(ubuf, DataStart(mdia), DataEnd(mdia), NoneFound)
         /\ IF ~ufound'.mdhd.ok \/ ~ufound'.stsz.ok
            THEN /\ upc' = "returned"
                 /\ uout' = Append(uout, Diagnostic("missing mdhd/stsz (cannot estimate FPS)"))
            ELSE upc' = "stats" /\ uout' = uout

AuditScan ==
    /\ upc = "scan"
    /\ Scanned(Child(ubuf, utrak, Str_mdia))
    /\ UNCHANGED <<ubuf, utraks, utrak, umdhd>>

\* parse_mdhd and the rest of audit_file: the ValueError of parse_mdhd is
\* not caught.
AuditStats ==
    /\ upc = "stats"
    /\ umdhd' = parse_mdhd(ubuf, ufound.mdhd)
    /\ IF umdhd'.ok
       THEN /\ upc' = "returned"
            /\ uout' = Append(uout,
                  StatsLine(umdhd'.timescale, umdhd'.duration,
                            parse_stsz_sample_count(ubuf, ufound.stsz),
                            IF ufound.stss.ok
                            THEN parse_stss_sync_count(ubuf, ufound.stss)
                            ELSE 0))
       ELSE upc' = "ValueError" /\ uout' = uout
    /\ UNCHANGED <<ubuf, utraks, utrak, ufound>>

AuditNext ==
    \/ AuditCall /\ UNCHANGED <<walkVars, adjustVars, mainVars>>
    \/ AuditLocate /\ UNCHANGED <<walkVars, adjustVars, mainVars>>
    \/ AuditScan /\ UNCHANGED <<walkVars, adjustVars, mainVars>>
    \/ AuditStats /\ UNCHANGED <<walkVars, adjustVars, mainVars>>

(***************************************************************************)
(* Specifications, one per script entry point.  The box walker is a        *)
(* generator that its callers drain in a for loop, so a walk that can take *)
(* a step eventually takes it.                                             *)
(***************************************************************************)
InitWalk == WalkIdle /\ AdjustIdle /\ MainIdle /\ AuditIdle
SpecWalk ==
    InitWalk /\ [][WalkNext]_vars
        /\ WF_vars(WalkStep /\ UNCHANGED <<adjustVars, mainVars, auditVars>>)

InitAdjust == AdjustInit /\ WalkIdle /\ MainIdle /\ AuditIdle
SpecAdjust == InitAdjust /\ [][AdjustNext]_vars

InitRelocate == MainIdle /\ WalkIdle /\ AdjustIdle /\ AuditIdle
SpecRelocate == InitRelocate /\ [][MainNext]_vars

InitAudit == AuditIdle /\ WalkIdle /\ AdjustIdle /\ MainIdle
SpecAudit == InitAudit /\ [][AuditNext]_vars

(***************************************************************************)
(* Properties.                                                             *)
(***************************************************************************)
\* Every box yielded so far lies in the region, has its header inside it,
\* follows the one before it without a gap, and has its whole 16-byte
\* header before the end of the region when its size32 is 1.
YieldedInRegion ==
    \A k \in 1..Len(wyield) :
        LET b == wyield[k]
        IN  /\ b.header <= b.size
            /\ wstart <= b.start
            /\ b.start + b.size <= wend
            /\ k = 1 => b.start = wstart
            /\ k > 1 => /\ b.start = wyield[k - 1].start + wyield[k - 1].size
                        /\ b.start > wyield[k - 1].start
            /\ PySlice(wbuf, b.start, b.start + 4) = <<0, 0, 0, 1>>
                   => b.start + 16 <= wend

\* C4: for any buffer and any region, iter_boxes terminates, and every box
\* it yields satisfies header_len <= size, start <= box_start and
\* box_start + size <= end, consecutive boxes being adjacent and in strictly
\* increasing offset order; a size32 == 1 box with fewer than 16 bytes left
\* before end is never yielded.
C4_WalkTerminatesInRegion ==
    []YieldedInRegion /\ (wpc = "walk" ~> wpc = "done")

\* A finished walk that yielded two boxes, the second one with an extended
\* size.
C4_Witness == wpc = "done" /\ Len(wyield) = 2 /\ wyield[2].header = 16

\* new - old for two big-endian fields of one width, exact while it is
\* small (Horner's rule on the digit differences, clamped).
RECURSIVE FieldDiff(_, _)
FieldDiff(new, old) ==
    IF new = <<>> THEN 0
    ELSE LET n == Len(new)
             hi == FieldDiff(SubSeq(new, 1, n - 1), SubSeq(old, 1, n - 1))
             d == hi * 256 + new[n] - old[n]
             cap == ValueCap \div 256
         IN  Max(-cap, Min(cap, d))

\* The stco and co64 tables of buf that the container tags lead to, each as
\* [off, width, count], read off the box tree of the region.
RECURSIVE ReachableTables(_, _, _)
ReachableTables(buf, start, end) ==
    LET bs == IterBoxes(buf, start, end)
        Of(b) ==
            LET ds == b.start + b.header
                de == b.start + b.size
                width == IF b.typ = Str_stco THEN 4 ELSE 8
                count == FromBytes(PySlice(buf, ds + 4, ds + 8))
            IN  IF b.typ = Str_meta
                THEN IF ds + 4 <= de THEN ReachableTables(buf, ds + 4, de) ELSE {}
                ELSE IF b.typ \in ContainerBoxes THEN ReachableTables(buf, ds, de)
                ELSE IF b.typ \in {Str_stco, Str_co64} /\ ds + 8 <= de
                          /\ ds + 8 + count * width <= de
                THEN {[off |-> ds + 8, width |-> width, count |-> count]}
                ELSE {}
    IN  UNION { Of(bs[k]) : k \in 1..Len(bs) }

\* The spans <<offset, width>> of the entries of those tables.
EntrySpans(buf) ==
    UNION { { <<t.off + j * t.width, t.width>> : j \in 0..(t.count - 1) }
            : t \in ReachableTables(buf, 0, Len(buf)) }

\* new is old with d added to every entry of every reachable table and
\* with every other byte as it was.
PatchedBy(new, old, d) ==
    LET spans == EntrySpans(old)
    IN  /\ Len(new) = Len(old)
        /\ \A e \in spans :
               FieldDiff(PySlice(new, e[1], e[1] + e[2]),
                         PySlice(old, e[1], e[1] + e[2])) = d
        /\ \A p \in 0..(Len(old) - 1) :
               (\A e \in spans : p < e[1] \/ p >= e[1] + e[2])
                   => new[p + 1] = old[p + 1]

OffsetsPatched == PatchedBy(moov, moov0, adelta)

\* C1: for every moov buffer and every delta D, after
\* adjust_chunk_offsets(moov, D) every entry of every stco and co64 table
\* reachable through the container tags equals its original value + D, and
\* every byte outside those entries is what it was before the call.
C1_OffsetCorrectness == apc # "call" => apc = "returned" /\ OffsetsPatched

\* What the rewriter does guarantee: a call that returns has patched every
\* reachable entry by delta and nothing else.
OffsetsPatchedWhenReturned == apc = "returned" => OffsetsPatched

\* The top-level boxes of a file, and the last one of a type (-1: none).
TopLevel(data) == IterBoxes(data, 0, Len(data))
TopTypes(data) == {TopLevel(data)[k].typ : k \in 1..Len(TopLevel(data))}
LastStart(data, t) ==
    IF t \in TopTypes(data)
    THEN TopLevel(data)[CHOOSE k \in 1..Len(TopLevel(data)) :
                          /\ TopLevel(data)[k].typ = t
                          /\ \A j \in (k + 1)..Len(TopLevel(data)) :
                                TopLevel(data)[j].typ # t].start
    ELSE -1
LastEnd(data, t) ==
    LET ends == {TopLevel(data)[k].start + TopLevel(data)[k].size :
                    k \in {j \in 1..Len(TopLevel(data)) :
                              TopLevel(data)[j].start = LastStart(data, t)}}
    IN  CHOOSE x \in ends : TRUE

Wrote(e) == e.res.outcome = "wrote"
Succeeded(e) == e.res.outcome \in {"wrote", "already_faststart"}

\* C2: whenever process_file writes a relocated output, the start of the
\* mdat box in the output is its start in the input plus the delta that was
\* added to the chunk offsets (the size of the moov box).
C2_DeltaIsMdatShift ==
    \A k \in 1..Len(log) :
        Wrote(log[k]) =>
            LastStart(log[k].out_after.data, Str_mdat)
                = LastStart(log[k].data, Str_mdat) + log[k].res.delta

\* An input with top-level ftyp and moov, moov after ftyp, and no mdat.
NoMdat(e) ==
    /\ e.src_after.exists
    /\ Str_ftyp \in TopTypes(e.data) /\ Str_moov \in TopTypes(e.data)
    /\ Str_mdat \notin TopTypes(e.data)
    /\ LastStart(e.data, Str_moov) >= LastEnd(e.data, Str_ftyp)

\* C3 as stated: for an input with ftyp and moov, a consistent layout and no
\* mdat, process_file writes the output and reports mdat as absent.
C3_NoMdatStillRelocates ==
    \A k \in 1..Len(log) :
        NoMdat(log[k]) =>
            /\ Wrote(log[k])
            /\ log[k].out_after.exists
            /\ log[k].res.new_mdat_start = -1

\* C3, amended: for an input with ftyp and moov and no mdat, process_file
\* takes the "already faststart" exit and writes nothing.
C3_NoMdatIsAlreadyFaststart ==
    \A k \in 1..Len(log) :
        NoMdat(log[k]) =>
            /\ log[k].res.outcome = "already_faststart"
            /\ log[k].out_after = log[k].out_before
            /\ log[k].src_after = File(log[k].data)

\* A file without mdat, moov after ftyp, has been processed.
C3_Witness == \E k \in 1..Len(log) : NoMdat(log[k])

\* C8: main processes the files in list order and stops at the first file
\* that fails: every file before it was fully processed, and no file
\* operation touches a file after it.
C8_BatchAbortsAtFirstFailure ==
    /\ Len(log) <= Len(files)
    /\ \A k \in 1..Len(log) : log[k].path = files[k]
    /\ \A k \in 1..(Len(log) - 1) :
          /\ Succeeded(log[k])
          /\ Wrote(log[k]) => log[k].out_after = File(log[k].res.rebuilt)
    /\ \A k \in 1..Len(io) :
          \E j \in 1..Len(log) :
             \/ io[k][2] = files[j]
             \/ Succeeded(log[j]) /\ io[k][2] = OutPath(files[j])
    /\ mpc = "running" => idx = Len(log) + 1 /\ \A k \in 1..Len(log) : Succeeded(log[k])
    /\ mpc = "raised" => Len(log) = idx /\ ~Succeeded(log[idx])
    /\ mpc = "returned" => Len(log) = Len(files) /\ \A k \in 1..Len(log) : Succeeded(log[k])

\* The second of three files failed in process_file after the first was
\* relocated.
C8_Witness ==
    /\ mpc = "raised" /\ Len(files) = 3 /\ Len(log) = 2
    /\ Wrote(log[1])
    /\ log[2].res.outcome = "RuntimeError_missing_atoms"

\* buf without the n bytes at offset at.
Cut(buf, at, n) ==
    [k \in 1..(Len(buf) - n) |-> IF k <= at THEN buf[k] ELSE buf[k + n]]

\* C9: a written output is input[0:insert_at] ++ rewritten moov ++
\* input[insert_at:moov_start] ++ input[moov_start+moov_size:], insert_at
\* being the end of ftyp: it is as long as the input, the moov (its chunk
\* offsets raised by its size) starts at insert_at, the bytes outside moov
\* are copied in order, and the source file is left as it was.
C9_OutputLayout ==
    \A k \in 1..Len(log) :
        Wrote(log[k]) =>
            LET e == log[k]
                out == e.out_after.data
                at == LastEnd(e.data, Str_ftyp)
                ms == LastStart(e.data, Str_moov)
                old == PySlice(e.data, ms, ms + e.res.moov_size)
            IN  /\ e.out_after.exists
                /\ Len(out) = Len(e.data)
                /\ e.res.insert_at = at
                /\ DecodeAscii(PySlice(old, 4, 8)) = Str_moov
                /\ ms + e.res.moov_size <= Len(e.data)
                /\ PatchedBy(PySlice(out, at, at + e.res.moov_size), old,
                             e.res.moov_size)
                /\ Cut(out, at, e.res.moov_size) = Cut(e.data, ms, e.res.moov_size)
                /\ e.src_after = File(e.data)
                /\ OutPath(e.path) # e.path

\* A relocation that moved moov over the mdat lying between ftyp and moov,
\* and patched a chunk offset table on the way.
C9_Witness ==
    \E k \in 1..Len(log) :
        /\ Wrote(log[k])
        /\ log[k].res.insert_at <= LastStart(log[k].data, Str_mdat)
        /\ LastStart(log[k].data, Str_mdat) < log[k].res.moov_start
        /\ log[k].res.moov_bytes
              # PySlice(log[k].data, log[k].res.moov_start,
                        log[k].res.moov_start + log[k].res.moov_size)

\* C10: the output of a relocation is fast-start, so process_file on that
\* output takes the "already faststart" exit.
C10_RerunIsNoOp ==
    \A j, k \in 1..Len(log) :
        (j < k /\ Wrote(log[j]) /\ log[k].path = OutPath(log[j].path)) =>
            /\ LastStart(log[k].data, Str_moov) < LastStart(log[k].data, Str_mdat)
            /\ log[k].res.outcome = "already_faststart"

\* audit_file got as far as parse_mdhd.
MdhdParsed == upc \in {"returned", "ValueError"} /\ umdhd # NotParsed

\* The data bytes of the mdhd box handed to parse_mdhd.
MdhdGiven == BoxData(ubuf, ufound.mdhd)

\* C5: parse_mdhd returns a (timescale, duration) pair only for version 0
\* with at least 20 data bytes or version 1 with at least 32; for every other
\* version byte, and for too few bytes, it fails.
C5_DecodesOnlyVersions0And1 ==
    MdhdParsed =>
        (umdhd.ok <=>
            /\ Len(MdhdGiven) >= 4
            /\ \/ MdhdGiven[1] = 0 /\ Len(MdhdGiven) >= 20
               \/ MdhdGiven[1] = 1 /\ Len(MdhdGiven) >= 32)

\* C6: audit_file returns normally with exactly one line printed, and no
\* exception leaves it.
C6_AuditNeverRaises ==
    /\ upc \in {"idle", "locate", "scan", "stats", "returned"}
    /\ upc = "returned" => Len(uout) = 1
    /\ upc # "returned" => uout = <<>>

\* Where the generated file holds its k-th trak, as a box.
RECURSIVE TrakOffset(_, _)
TrakOffset(ds, k) ==
    IF k = 1 THEN Len(Ftyp) + 8 + Len(Free)
    ELSE TrakOffset(ds, k - 1) + Len(TrakBox(ds[k - 1]))

FirstVideo(ds) ==
    IF \E k \in 1..Len(ds) : ds[k].hdlr = "vide"
    THEN CHOOSE k \in 1..Len(ds) :
            /\ ds[k].hdlr = "vide"
            /\ \A j \in 1..(k - 1) : ds[j].hdlr # "vide"
    ELSE 0

ExpectedTrak(inp) ==
    IF inp.has_moov /\ FirstVideo(inp.traks) > 0
    THEN [ok |-> TRUE, typ |-> Str_trak,
          start |-> TrakOffset(inp.traks, FirstVideo(inp.traks)),
          size |-> Len(TrakBox(inp.traks[FirstVideo(inp.traks)])),
          header |-> 8]
    ELSE NoBox

\* C7: locate_video_trak returns the span of the first trak among moov's
\* children whose mdia -> hdlr handler type is "vide", passing over traks
\* without mdia or hdlr and traks with another handler, and returns nothing
\* only when no trak qualifies or there is no moov.
C7_FirstVideoTrak ==
    upc \notin {"idle", "locate"} => utrak = ExpectedTrak(utraks)

\* An audio trak followed by a video trak: the second one was returned.
C7_Witness ==
    /\ upc \notin {"idle", "locate"}
    /\ Len(utraks.traks) = 2
    /\ utraks.traks[1].hdlr = "soun" /\ utraks.traks[2].hdlr = "vide"
    /\ utrak.ok /\ utrak.start > TrakOffset(utraks.traks, 1)

=============================================================================
